---------------------------- MODULE Spec2Model ----------------------------
(***************************************************************************)
(* Model of testsheet (src/testsheet/test_sheet.py, src/test_sheet/cli.py):*)
(* the extraction of test-case metadata from tagged comments around test   *)
(* functions, and the file / directory run that writes one sheet per file. *)
(*                                                                         *)
(* Text is modelled as a sequence of tokens.  A token is one character     *)
(* ("#", " ", "@", "\n"), a triple quote, a tag marker ("Step:", ...), the  *)
(* two-character escape backslash-n ("\\n"), or an opaque word.  The str   *)
(* methods the code uses are operators over such sequences.                *)
(***************************************************************************)
EXTENDS Integers, Sequences, FiniteSets, TLC

VARIABLES
    \* extract_function_info: one function of one line buffer
    lines, node, pc, description, pre_condition, test_steps, expected_output,
    test_case,
    \* parse_test_cases: the walk over the syntax tree
    tree, walked, test_cases,
    \* cli.main / TestSheet.run
    argv, path_kind, files, file_pos, wb, saved, log, raised, exit_status,
    \* one forward scan, iteration by iteration
    scan, scanned

vars == <<lines, node, pc, description, pre_condition, test_steps,
          expected_output, test_case, tree, walked, test_cases,
          argv, path_kind, files, file_pos, wb, saved, log, raised, exit_status,
          scan, scanned>>

extract_vars == <<description, pre_condition, test_steps, expected_output, test_case>>
parse_vars == <<tree, walked, test_cases>>
run_vars == <<argv, path_kind, files, file_pos, wb, saved, log, raised, exit_status>>
scan_vars == <<scan, scanned>>

---------------------------------------------------------------------------
(* Bounds of the model *)

MaxAbove == 3
MaxBody == 3
MaxFunctions == 3
MaxFiles == 3
MaxLines == 3

---------------------------------------------------------------------------
(* Tokens *)

HASH == "#"
SP == " "
AT == "@"
NL == "\n"
ESC == "\\n"
TQ == "'''"
DQ == "\"\"\""

\* class TestCaseTag
DESCRIPTION == "Description:"
TEST_STEP == "Step:"
EXPECTED_OUTPUT == "Expected Output:"
PRECONDITION == "Precondition:"

---------------------------------------------------------------------------
(* str methods *)

\* characters str.strip() removes
IsSpace(c) == c \in {SP, NL}

RECURSIVE lstrip(_)
lstrip(s) == IF s # <<>> /\ IsSpace(Head(s)) THEN lstrip(Tail(s)) ELSE s

RECURSIVE rstrip(_)
rstrip(s) ==
    IF s # <<>> /\ IsSpace(s[Len(s)]) THEN rstrip(SubSeq(s, 1, Len(s) - 1)) ELSE s

strip(s) == rstrip(lstrip(s))

\* line.lstrip("#")
RECURSIVE lstrip_hash(_)
lstrip_hash(s) == IF s # <<>> /\ Head(s) = HASH THEN lstrip_hash(Tail(s)) ELSE s

startswith(s, p) == Len(p) <= Len(s) /\ SubSeq(s, 1, Len(p)) = p

endswith(s, p) == Len(p) <= Len(s) /\ SubSeq(s, Len(s) - Len(p) + 1, Len(s)) = p

\* s.find(p) + 1: the position of the first occurrence of p in s, 0 when none
find(s, p) ==
    LET hits == {k \in 1..(Len(s) - Len(p) + 1) : SubSeq(s, k, k + Len(p) - 1) = p}
    IN IF hits = {} THEN 0 ELSE CHOOSE k \in hits : \A h \in hits : k <= h

\* p in s
contains(s, p) == find(s, p) # 0

\* s.split(p, 1)[-1]: what follows the first p, or all of s when p is not in s
split_last(s, p) ==
    IF contains(s, p) THEN SubSeq(s, find(s, p) + Len(p), Len(s)) ELSE s

\* "\n".join(s.split("\\n")): every escape becomes a line break
expand_escapes(s) == [k \in 1..Len(s) |-> IF s[k] = ESC THEN NL ELSE s[k]]

\* sep.join(parts)
RECURSIVE join(_, _)
join(parts, sep) ==
    IF parts = <<>> THEN <<>>
    ELSE IF Len(parts) = 1 THEN parts[1]
    ELSE parts[1] \o <<sep>> \o join(Tail(parts), sep)

\* list.reverse()
reverse(s) == [k \in 1..Len(s) |-> s[Len(s) + 1 - k]]

\* f"{step_counter}. "
numbered(step_counter) == <<ToString(step_counter), ".", SP>>

---------------------------------------------------------------------------
(* The forward scans: extract_pre_condition, extract_test_steps,           *)
(* extract_expected_output.  The three bodies differ only in the tag.      *)
(* i is the code's 0-based index: self.lines[i] is lines[i + 1] here, and  *)
(* raises IndexError when i >= len(self.lines).  A scan's result carries,  *)
(* beside the list the code returns (entries; none when the except branch  *)
(* returned None), the line each entry was emitted at (at) and the indices *)
(* read, in order (reads).                                                 *)

\* the inner while of the multiline branch
RECURSIVE block_loop(_, _, _, _, _, _)
block_loop(ls, function_end, tag, i, comment_lines, reads) ==
    IF ~(i < function_end)
    THEN [i |-> i, comment_lines |-> comment_lines, reads |-> reads, raised |-> FALSE]
    ELSE IF i >= Len(ls)
    THEN [i |-> i, comment_lines |-> comment_lines, reads |-> reads, raised |-> TRUE]
    ELSE
        LET line == strip(ls[i + 1])
            step_text ==
                IF contains(line, <<DQ, SP, tag>>) THEN split_last(line, <<DQ, SP, tag>>)
                ELSE IF contains(line, <<TQ, SP, tag>>) THEN split_last(line, <<TQ, SP, tag>>)
                ELSE line
        IN IF endswith(line, <<DQ>>) \/ endswith(line, <<TQ>>)
           THEN [i |-> i, comment_lines |-> comment_lines,
                 reads |-> Append(reads, i), raised |-> FALSE]
           ELSE block_loop(ls, function_end, tag, i + 1,
                           Append(comment_lines, expand_escapes(step_text)),
                           Append(reads, i))

\* the outer while
RECURSIVE scan_loop(_, _, _, _, _, _)
scan_loop(ls, function_end, tag, i, step_counter, acc) ==
    IF ~(i < function_end) THEN acc
    ELSE IF i >= Len(ls) THEN [acc EXCEPT !.none = TRUE, !.entries = <<>>, !.at = <<>>]
    ELSE
        LET line == strip(ls[i + 1])
        IN IF startswith(line, <<HASH, SP, tag>>)
           THEN scan_loop(ls, function_end, tag, i + 1, step_counter + 1,
                    [acc EXCEPT
                        !.entries = Append(@, numbered(step_counter)
                                        \o strip(split_last(line, <<HASH, SP, tag>>))),
                        !.at = Append(@, i),
                        !.reads = Append(@, i)])
           ELSE IF startswith(line, <<DQ, SP, tag>>) \/ startswith(line, <<TQ, SP, tag>>)
           THEN LET b == block_loop(ls, function_end, tag, i, <<>>, Append(acc.reads, i))
                IN IF b.raised
                   THEN [acc EXCEPT !.none = TRUE, !.entries = <<>>, !.at = <<>>,
                                    !.reads = b.reads]
                   ELSE IF b.comment_lines # <<>>
                   THEN scan_loop(ls, function_end, tag, b.i + 1, step_counter + 1,
                            [acc EXCEPT
                                !.entries = Append(@, numbered(step_counter)
                                                \o strip(join(b.comment_lines, SP))),
                                !.at = Append(@, i),
                                !.reads = b.reads])
                   ELSE scan_loop(ls, function_end, tag, b.i + 1, step_counter,
                            [acc EXCEPT !.reads = b.reads])
           ELSE scan_loop(ls, function_end, tag, i + 1, step_counter,
                    [acc EXCEPT !.reads = Append(@, i)])

NoEntries == [none |-> FALSE, entries |-> <<>>, at |-> <<>>, reads |-> <<>>]

\* the scan that starts one line too low
forward_scan_skips_a_line(ls, nd, tag) ==
    scan_loop(ls, nd.end_lineno, tag, nd.lineno + 1, 1, NoEntries)

\* function_start = node.lineno - 1; function_end = node.end_lineno;
\* step_counter = 1; i = function_start + 1
forward_scan(ls, nd, tag) == scan_loop(ls, nd.end_lineno, tag, nd.lineno, 1, NoEntries)

extract_pre_condition(ls, nd) == forward_scan(ls, nd, PRECONDITION)

\* the scan whose counter goes on from the preconditions' instead of restarting
extract_test_steps_keeps_counter(ls, nd) ==
    scan_loop(ls, nd.end_lineno, TEST_STEP, nd.lineno,
              1 + Len(forward_scan(ls, nd, PRECONDITION).entries), NoEntries)

extract_test_steps(ls, nd) == forward_scan(ls, nd, TEST_STEP)

extract_expected_output(ls, nd) == forward_scan(ls, nd, EXPECTED_OUTPUT)

---------------------------------------------------------------------------
(* The backward scan: extract_description.  Its result carries, beside the *)
(* value the code returns (text; none when it returned None), the list     *)
(* description_lines (segments), the line each segment was taken from      *)
(* (from) and the indices read, in order (reads).                          *)

starts_quote(line) == startswith(line, <<DQ>>) \/ startswith(line, <<TQ>>)

\* the inner while of the multiline branch, walking upward from i
RECURSIVE description_block(_, _, _)
description_block(ls, i, acc) ==
    IF ~(i >= 0) THEN acc
    ELSE
        LET line == strip(ls[i + 1])
            step_text ==
                IF contains(line, <<DQ, SP, DESCRIPTION>>)
                THEN split_last(line, <<DQ, SP, DESCRIPTION>>)
                ELSE IF contains(line, <<TQ, SP, DESCRIPTION>>)
                THEN split_last(line, <<TQ, SP, DESCRIPTION>>)
                ELSE line
            got == [comment_content |-> Append(acc.comment_content, step_text),
                    from |-> Append(acc.from, i),
                    reads |-> Append(acc.reads, i)]
        IN IF starts_quote(line) THEN got ELSE description_block(ls, i - 1, got)

\* for i in range(function_start - 1, -1, -1)
RECURSIVE description_loop(_, _, _)
description_loop(ls, i, acc) ==
    IF ~(i >= 0) THEN acc
    ELSE IF i >= Len(ls) THEN [acc EXCEPT !.raised = TRUE]
    ELSE
        LET line == strip(ls[i + 1])
            seen == [acc EXCEPT !.reads = Append(@, i)]
        IN IF ~(startswith(line, <<HASH>>) \/ startswith(line, <<AT>>) \/ starts_quote(line))
           THEN seen
           ELSE IF starts_quote(line)
           THEN LET b == description_block(ls, i - 1,
                            [comment_content |-> <<>>, from |-> <<>>, reads |-> seen.reads])
                IN [seen EXCEPT !.segments = @ \o reverse(b.comment_content),
                                !.from = @ \o reverse(b.from),
                                !.reads = b.reads]
           ELSE IF startswith(line, <<HASH>>)
           THEN description_loop(ls, i - 1,
                    [seen EXCEPT
                        !.segments = Append(@,
                            IF contains(line, <<DESCRIPTION>>)
                            THEN strip(split_last(line, <<DESCRIPTION>>))
                            ELSE strip(lstrip_hash(line))),
                        !.from = Append(@, i)])
           ELSE description_loop(ls, i - 1, seen)

\* function_start = node.lineno - 1; the scan starts at function_start - 1
extract_description(ls, nd) ==
    LET r == description_loop(ls, nd.lineno - 2,
                 [raised |-> FALSE, segments |-> <<>>, from |-> <<>>, reads |-> <<>>])
    IN IF r.raised \/ r.segments = <<>>
       THEN [none |-> TRUE, text |-> <<>>, segments |-> <<>>, from |-> <<>>,
             reads |-> r.reads, raised |-> r.raised]
       ELSE [none |-> FALSE, text |-> strip(join(r.segments, SP)),
             segments |-> r.segments, from |-> r.from, reads |-> r.reads,
             raised |-> FALSE]

---------------------------------------------------------------------------
(* extract_function_info: the record of one function *)

headers == <<"Test Case Name", "Automation Status", "Test Case Description",
             "Pre Condition", "Test Steps", "Expected Output", "Test Result">>

\* "\n".join(entries) if entries else ""   (None and [] are both falsy)
joined_entries(r) == IF r.none \/ r.entries = <<>> THEN <<>> ELSE join(r.entries, NL)

make_test_case(nd, d, p, s, e) ==
    [h \in {headers[k] : k \in 1..Len(headers)} |->
        CASE h = "Test Case Name" -> nd.name
          [] h = "Test Case Description" -> IF d.none THEN <<>> ELSE d.text
          [] h = "Pre Condition" -> joined_entries(p)
          [] h = "Test Steps" -> joined_entries(s)
          [] h = "Expected Output" -> joined_entries(e)
          [] OTHER -> <<>>]

extract_function_info(ls, nd) ==
    make_test_case(nd, extract_description(ls, nd), extract_pre_condition(ls, nd),
                   extract_test_steps(ls, nd), extract_expected_output(ls, nd))

---------------------------------------------------------------------------
(* ast.parse: the part of Python's tokenizer that decides which lines lie  *)
(* in a triple-quoted string.  A buffer reaches the extractors only when   *)
(* it parses, so a function declaration never lies inside a string and no  *)
(* string is left open where a function or the file ends.                  *)

\* the quote of the string left open after s, that before s being `open` ("" for none)
RECURSIVE lex_line(_, _)
lex_line(s, open) ==
    IF s = <<>> THEN open
    ELSE IF open = ""
    THEN IF Head(s) = HASH THEN ""
         ELSE IF Head(s) \in {DQ, TQ} THEN lex_line(Tail(s), Head(s))
         ELSE lex_line(Tail(s), "")
    ELSE IF Head(s) = open THEN lex_line(Tail(s), "")
    ELSE lex_line(Tail(s), open)

\* the quote of the string open where the line of 0-based index i begins
RECURSIVE open_at(_, _)
open_at(ls, i) == IF i = 0 THEN "" ELSE lex_line(ls[i], open_at(ls, i - 1))

\* the line of 0-based index i lies in, opens or closes a triple-quoted string
in_string(ls, i) ==
    \/ open_at(ls, i) # ""
    \/ \E k \in 1..Len(ls[i + 1]) : lex_line(SubSeq(ls[i + 1], 1, k), "") # ""

\* a string is a statement of its own: code neither precedes the quote that
\* opens it nor follows the quote that closes it (last: "", "code" or "string")
RECURSIVE statement_ok(_, _, _)
statement_ok(s, open, last) ==
    IF s = <<>> THEN TRUE
    ELSE IF open # ""
    THEN statement_ok(Tail(s), IF Head(s) = open THEN "" ELSE open, "string")
    ELSE IF Head(s) = HASH THEN TRUE
    ELSE IF Head(s) \in {DQ, TQ} THEN last # "code" /\ statement_ok(Tail(s), Head(s), "string")
    ELSE IF IsSpace(Head(s)) THEN statement_ok(Tail(s), "", last)
    ELSE last # "string" /\ statement_ok(Tail(s), "", "code")

\* the line of 0-based index i is code (not in a string) that starts with p
code_starts(ls, i, p) == open_at(ls, i) = "" /\ startswith(strip(ls[i + 1]), p)

\* a decorator is followed, comments aside, by a decorator or a declaration
decorated(ls, i) ==
    LET later == {j \in (i + 1)..(Len(ls) - 1) : ~code_starts(ls, j, <<HASH>>)}
    IN /\ later # {}
       /\ LET j == CHOOSE j \in later : \A k \in later : j <= k
          IN code_starts(ls, j, <<AT>>) \/ code_starts(ls, j, <<"def">>)

\* the text parses and has the function at nd.lineno .. nd.end_lineno
parses(ls, nd) ==
    /\ open_at(ls, Len(ls)) = ""
    /\ code_starts(ls, nd.lineno - 1, <<"def">>)
    /\ open_at(ls, nd.end_lineno) = ""
    /\ \A i \in 0..(Len(ls) - 1) :
          /\ statement_ok(ls[i + 1], open_at(ls, i), "")
          /\ code_starts(ls, i, <<AT>>) => decorated(ls, i)

---------------------------------------------------------------------------
(* Line buffers.  self.lines is file.readlines(): every line keeps its     *)
(* line break, and lines inside a function are indented.                   *)

\* lines that occur above a function declaration
AboveLines ==
    { <<HASH, SP, DESCRIPTION, SP, "a", NL>>,          \* # Description: a
      <<HASH, SP, "b", NL>>,                           \* # b
      <<AT, "dec", NL>>,                               \* @dec
      <<DQ, SP, DESCRIPTION, SP, "c", NL>>,            \* (DQ) Description: c
      <<"d", NL>>,                                     \* d     (not a comment)
      <<DQ, NL>>,                                      \* (DQ)
      <<TQ, SP, DESCRIPTION, SP, "e", SP, TQ, NL>> }   \* (TQ) Description: e (TQ)

\* lines that occur inside a function
BodyLines ==
    { <<SP, HASH, SP, TEST_STEP, SP, "a", SP, NL>>,             \* # Step: a
      <<SP, HASH, SP, PRECONDITION, SP, "b", NL>>,              \* # Precondition: b
      <<SP, TQ, SP, TEST_STEP, SP, "c", NL>>,                   \* (TQ) Step: c
      <<SP, "d", NL>>,                                          \* d
      <<SP, "e", SP, TQ, NL>>,                                  \* e (TQ)
      <<SP, TQ, SP, TEST_STEP, SP, "f", ESC, "g", SP, TQ, NL>>, \* (TQ) Step: f\ng (TQ)
      <<SP, DQ, SP, EXPECTED_OUTPUT, SP, "h", ESC, "i", NL>>,   \* (DQ) Expected Output: h\ni
      <<SP, DQ, NL>>,                                           \* (DQ)
      <<SP, "j", SP, TQ, SP, HASH, SP, "k", NL>> }              \* j (TQ) # k

DefLine == <<"def", SP, "test_", "a", "():", NL>>
PassLine == <<SP, "pass", NL>>
\* a tagged comment outside the function, before or after it
StrayLine == <<HASH, SP, TEST_STEP, SP, "z", NL>>

RECURSIVE SeqsUpTo(_, _)
SeqsUpTo(S, n) ==
    IF n = 0 THEN {<<>>}
    ELSE LET shorter == SeqsUpTo(S, n - 1)
         IN shorter \cup {Append(q, x) : q \in {r \in shorter : Len(r) = n - 1}, x \in S}

test_a == <<"test_", "a">>

\* a function with comments above it and a body of one statement
DescriptionInputs ==
    { [lines |-> above \o <<DefLine, PassLine>>,
       node |-> [kind |-> "FunctionDef", name |-> test_a,
                 lineno |-> Len(above) + 1, end_lineno |-> Len(above) + 2]] :
      above \in SeqsUpTo(AboveLines, MaxAbove) }

\* what surrounds a function: nothing, or a stray tagged comment
Surroundings == {<<>>, <<StrayLine>>}


\* a function with comments in its body, which its last statement ends, and
\* lines before and after it
ForwardInputs ==
    { [lines |-> before \o <<DefLine>> \o body \o <<PassLine>> \o after,
       node |-> [kind |-> "FunctionDef", name |-> test_a,
                 lineno |-> Len(before) + 1,
                 end_lineno |-> Len(before) + 2 + Len(body)]] :
      before \in Surroundings,
      body \in SeqsUpTo(BodyLines, MaxBody),
      after \in Surroundings }

FunctionInputs == {f \in DescriptionInputs \cup ForwardInputs : parses(f.lines, f.node)}

NoResult == [none |-> TRUE, entries |-> <<>>, at |-> <<>>, reads |-> <<>>]
NoDescription ==
    [none |-> TRUE, text |-> <<>>, segments |-> <<>>, from |-> <<>>,
     reads |-> <<>>, raised |-> FALSE]
NoNode == [kind |-> "Module", name |-> <<>>, lineno |-> 1, end_lineno |-> 1]
NoTestCase == make_test_case(NoNode, NoDescription, NoResult, NoResult, NoResult)

\* no forward scan is being followed
NoScan ==
    /\ scan = [tag |-> "", i |-> 0, step_counter |-> 1, comment_lines |-> <<>>,
               opened |-> 0]
    /\ scanned = NoResult

---------------------------------------------------------------------------
(* Spec: extract_function_info on one function, call by call *)

Init ==
    /\ \E f \in FunctionInputs :
          /\ lines = f.lines
          /\ node = f.node
    /\ pc = "extract_description"
    /\ description = NoDescription
    /\ pre_condition = NoResult
    /\ test_steps = NoResult
    /\ expected_output = NoResult
    /\ test_case = NoTestCase
    /\ tree = <<>> /\ walked = 0 /\ test_cases = <<>>
    /\ argv = <<>> /\ path_kind = "none" /\ files = <<>> /\ file_pos = 0
    /\ wb = <<>> /\ saved = FALSE /\ log = <<>> /\ raised = "" /\ exit_status = -1
    /\ NoScan

ExtractDescription ==
    /\ pc = "extract_description"
    /\ description' = extract_description(lines, node)
    /\ pc' = "extract_pre_condition"
    /\ UNCHANGED <<lines, node, pre_condition, test_steps, expected_output, test_case>>
    /\ UNCHANGED <<parse_vars, run_vars, scan_vars>>

ExtractPreCondition ==
    /\ pc = "extract_pre_condition"
    /\ pre_condition' = extract_pre_condition(lines, node)
    /\ pc' = "extract_test_steps"
    /\ UNCHANGED <<lines, node, description, test_steps, expected_output, test_case>>
    /\ UNCHANGED <<parse_vars, run_vars, scan_vars>>

ExtractTestSteps ==
    /\ pc = "extract_test_steps"
    /\ test_steps' = extract_test_steps(lines, node)
    /\ pc' = "extract_expected_output"
    /\ UNCHANGED <<lines, node, description, pre_condition, expected_output, test_case>>
    /\ UNCHANGED <<parse_vars, run_vars, scan_vars>>

ExtractExpectedOutput ==
    /\ pc = "extract_expected_output"
    /\ expected_output' = extract_expected_output(lines, node)
    /\ pc' = "test_case"
    /\ UNCHANGED <<lines, node, description, pre_condition, test_steps, test_case>>
    /\ UNCHANGED <<parse_vars, run_vars, scan_vars>>

BuildTestCase ==
    /\ pc = "test_case"
    /\ test_case' = make_test_case(node, description, pre_condition, test_steps,
                                   expected_output)
    /\ pc' = "return"
    /\ UNCHANGED <<lines, node, description, pre_condition, test_steps, expected_output>>
    /\ UNCHANGED <<parse_vars, run_vars, scan_vars>>

Next ==
    \/ ExtractDescription
    \/ ExtractPreCondition
    \/ ExtractTestSteps
    \/ ExtractExpectedOutput
    \/ BuildTestCase

Spec == Init /\ [][Next]_vars

---------------------------------------------------------------------------
(* What the claims speak of *)

Range(s) == {s[k] : k \in 1..Len(s)}

\* the elements of a set of integers, in increasing order
RECURSIVE Sorted(_)
Sorted(S) ==
    IF S = {} THEN <<>>
    ELSE LET m == CHOOSE m \in S : \A x \in S : m <= x IN <<m>> \o Sorted(S \ {m})

\* the stripped line of 0-based index i
Line(i) == strip(lines[i + 1])

\* the 0-based indices of the lines inside the function, below its declaration
BodyIndices == node.lineno .. (node.end_lineno - 1)

ForwardTags == {PRECONDITION, TEST_STEP, EXPECTED_OUTPUT}

\* the scan of a tag has returned
Scanned(tag) ==
    CASE tag = PRECONDITION ->
            pc \in {"extract_test_steps", "extract_expected_output", "test_case", "return"}
      [] tag = TEST_STEP -> pc \in {"extract_expected_output", "test_case", "return"}
      [] tag = EXPECTED_OUTPUT -> pc \in {"test_case", "return"}

ResultOf(tag) ==
    CASE tag = PRECONDITION -> pre_condition
      [] tag = TEST_STEP -> test_steps
      [] tag = EXPECTED_OUTPUT -> expected_output

Opens(i, tag) == \E q \in {DQ, TQ} : startswith(Line(i), <<q, SP, tag>>)
Closes(i) == \E q \in {DQ, TQ} : endswith(Line(i), <<q>>)

\* line i lies in a tagged block that an earlier line of the function opened
Enclosed(i, tag) ==
    \E a \in BodyIndices : a < i /\ Opens(a, tag) /\ ~\E c \in a..(i - 1) : Closes(c)

\* the entries a scan emitted at the lines a..b
EntriesAt(r, a, b) == {k \in 1..Len(r.at) : r.at[k] \in a..b}

\* the text of a one-line block: between the marker and the closing quote
OneLineText(i) == strip(expand_escapes(SubSeq(Line(i), 4, Len(Line(i)) - 1)))

\* the text of the block a..b, closing line included
BlockText(a, b) ==
    strip(join([k \in 1..(b - a + 1) |->
                  expand_escapes(
                    IF k = 1 THEN SubSeq(Line(a), 4, Len(Line(a)))
                    ELSE IF k = b - a + 1 THEN SubSeq(Line(b), 1, Len(Line(b)) - 1)
                    ELSE Line(a + k - 1))], SP))

\* C1: a tagged block that opens and closes on one line of the function makes
\* the scan of its tag emit exactly one entry, numbered, whose text is the
\* block's with every escape expanded to a line break.
C1_OneLineBlockIsOneEntry ==
    \A tag \in ForwardTags : Scanned(tag) =>
        \A i \in BodyIndices :
            (Opens(i, tag) /\ Closes(i) /\ Len(Line(i)) > 3 /\ ~Enclosed(i, tag)) =>
                /\ Cardinality(EntriesAt(ResultOf(tag), i, i)) = 1
                /\ \A k \in EntriesAt(ResultOf(tag), i, i) :
                      ResultOf(tag).entries[k] = numbered(k) \o OneLineText(i)

\* C2: a tagged block spanning several lines of the function yields exactly one
\* entry, whose text is the space-join of every line from the opening line
\* (marker stripped) through the closing line (what precedes its quote) inclusive.
C2_BlockIncludesClosingLine ==
    \A tag \in ForwardTags : Scanned(tag) =>
        \A a \in BodyIndices : \A b \in BodyIndices :
            (/\ a < b
             /\ Opens(a, tag) /\ ~Enclosed(a, tag)
             /\ \A c \in a..(b - 1) : ~Closes(c)
             /\ Closes(b)) =>
                /\ Cardinality(EntriesAt(ResultOf(tag), a, b)) = 1
                /\ \A k \in EntriesAt(ResultOf(tag), a, b) :
                      ResultOf(tag).entries[k] = numbered(k) \o BlockText(a, b)

DescriptionDone == pc # "extract_description"

\* C3: the description reads top to bottom: of two retained segments, the one
\* from the higher line of the source comes first.
C3_DescriptionInSourceOrder ==
    DescriptionDone =>
        \A p \in 1..Len(description.segments) : \A q \in 1..Len(description.segments) :
            (/\ p < q
             /\ description.segments[p] # <<>> /\ description.segments[q] # <<>>
             /\ description.segments[p] # description.segments[q])
                => description.from[p] < description.from[q]

\* line i is a # comment, a decorator or a line of a triple-quoted block
Skipped(i) ==
    \/ in_string(lines, i)
    \/ startswith(Line(i), <<HASH>>)
    \/ startswith(Line(i), <<AT>>)

\* the first line above the declaration that is none of these, -1 when none
StopLine ==
    LET stops == {i \in 0..(node.lineno - 2) : ~Skipped(i)}
    IN IF stops = {} THEN -1 ELSE CHOOSE i \in stops : \A j \in stops : j <= i

\* the opening line of the first block met walking upward, -1 when none is met
BlockOpening ==
    LET met == {i \in (StopLine + 1)..(node.lineno - 2) : in_string(lines, i)}
    IN IF met = {} THEN -1
       ELSE LET last == CHOOSE i \in met : \A j \in met : j <= i
                opening == {i \in 0..last : open_at(lines, i) = "" /\ in_string(lines, i)}
            IN CHOOSE i \in opening : \A j \in opening : j <= i

\* C5: the backward scan stops at the first line that is neither a # comment, a
\* decorator nor a line of a block: it takes no text from that line or above,
\* reads nothing above it, and reads nothing above the opening line of a block
\* it consumed.
C5_DescriptionScanStops ==
    DescriptionDone =>
        /\ \A i \in Range(description.from) : i > StopLine
        /\ \A i \in Range(description.reads) : i >= StopLine /\ i >= BlockOpening

\* C6: the entries of a scan are in increasing line order, and the k-th starts
\* with "k. ": every tag of every function is numbered from 1 without gaps.
C6_EntriesNumberedInLineOrder ==
    \A tag \in ForwardTags : Scanned(tag) =>
        LET r == ResultOf(tag)
        IN /\ Len(r.at) = Len(r.entries)
           /\ \A k \in 1..Len(r.entries) :
                 /\ startswith(r.entries[k], numbered(k))
                 /\ k > 1 => r.at[k - 1] < r.at[k]
                 /\ r.at[k] \in BodyIndices

\* a block of steps below a precondition: each is the first entry of its tag
C6_Witness ==
    /\ pc = "return"
    /\ Len(pre_condition.entries) = 1
    /\ Len(test_steps.entries) = 1
    /\ Opens(test_steps.at[1], TEST_STEP)
    /\ pre_condition.at[1] < test_steps.at[1]

\* the lines of the function that are single-line comments of the tag
Tagged(tag) == Sorted({i \in BodyIndices : startswith(Line(i), <<HASH, SP, tag>>)})

---------------------------------------------------------------------------
(* parse_test_cases: the walk over the nodes of the syntax tree *)

\* the test that forgets the node's type
named_like_a_test(nd) == startswith(nd.name, <<"test_">>)

\* isinstance(node, ast.FunctionDef) and node.name.startswith("test_")
is_test_function(nd) == nd.kind = "FunctionDef" /\ startswith(nd.name, <<"test_">>)

\* the body of the for loop, for one node
visit(ls, nd, cases) ==
    IF is_test_function(nd) THEN Append(cases, extract_function_info(ls, nd)) ELSE cases

\* for node in ast.walk(tree): ...
RECURSIVE visit_all(_, _, _)
visit_all(ls, nodes, cases) ==
    IF nodes = <<>> THEN cases
    ELSE visit_all(ls, Tail(nodes), visit(ls, Head(nodes), cases))

(* Source files are made of declarations.  Each has its lines, the node    *)
(* ast.walk yields for it at the top level (lineno and end_lineno counted  *)
(* from the declaration's first line) and the nodes nested in it, which    *)
(* the breadth-first walk yields after every top-level node.               *)

\* a test with a description and a step
TestA ==
    [lines |-> << <<HASH, SP, DESCRIPTION, SP, "a", NL>>,
                  <<"def", SP, "test_", "a", "():", NL>>,
                  <<SP, HASH, SP, TEST_STEP, SP, "a", NL>>,
                  <<SP, "pass", NL>> >>,
     top |-> [kind |-> "FunctionDef", name |-> <<"test_", "a">>,
              lineno |-> 2, end_lineno |-> 4],
     nested |-> <<>>]

\* a test with no comment at all
TestB ==
    [lines |-> << <<"def", SP, "test_", "b", "():", NL>>,
                  <<SP, "pass", NL>> >>,
     top |-> [kind |-> "FunctionDef", name |-> <<"test_", "b">>,
              lineno |-> 1, end_lineno |-> 2],
     nested |-> <<>>]

\* a function that is no test, with a tagged comment
Helper ==
    [lines |-> << <<"def", SP, "helper", "():", NL>>,
                  <<SP, HASH, SP, TEST_STEP, SP, "h", NL>>,
                  <<SP, "pass", NL>> >>,
     top |-> [kind |-> "FunctionDef", name |-> <<"helper">>,
              lineno |-> 1, end_lineno |-> 3],
     nested |-> <<>>]

\* a class named like a test, with a test method
TestClass ==
    [lines |-> << <<"class", SP, "test_", "c", ":", NL>>,
                  <<SP, HASH, SP, "m", NL>>,
                  <<SP, "def", SP, "test_", "m", "(self):", NL>>,
                  <<SP, SP, HASH, SP, PRECONDITION, SP, "p", NL>>,
                  <<SP, SP, "pass", NL>> >>,
     top |-> [kind |-> "ClassDef", name |-> <<"test_", "c">>,
              lineno |-> 1, end_lineno |-> 5],
     nested |-> << [kind |-> "FunctionDef", name |-> <<"test_", "m">>,
                    lineno |-> 3, end_lineno |-> 5] >>]

\* a coroutine named like a test
TestCoroutine ==
    [lines |-> << <<"async", SP, "def", SP, "test_", "e", "():", NL>>,
                  <<SP, HASH, SP, TEST_STEP, SP, "e", NL>>,
                  <<SP, "pass", NL>> >>,
     top |-> [kind |-> "AsyncFunctionDef", name |-> <<"test_", "e">>,
              lineno |-> 1, end_lineno |-> 3],
     nested |-> <<>>]

Declarations == {TestA, TestB, Helper, TestClass, TestCoroutine}

RECURSIVE concat(_)
concat(ss) == IF ss = <<>> THEN <<>> ELSE Head(ss) \o concat(Tail(ss))

\* the lines of the declarations before the k-th
RECURSIVE offset(_, _)
offset(ds, k) == IF k = 1 THEN 0 ELSE offset(ds, k - 1) + Len(ds[k - 1].lines)

moved(nd, by) == [nd EXCEPT !.lineno = @ + by, !.end_lineno = @ + by]

ModuleNode == [kind |-> "Module", name |-> <<>>, lineno |-> 0, end_lineno |-> 0]

\* the source file made of the declarations ds: its lines and its nodes in
\* the order of ast.walk
source(ds) ==
    [lines |-> concat([k \in 1..Len(ds) |-> ds[k].lines]),
     tree |-> <<ModuleNode>>
              \o [k \in 1..Len(ds) |-> moved(ds[k].top, offset(ds, k))]
              \o concat([k \in 1..Len(ds) |->
                    [j \in 1..Len(ds[k].nested) |-> moved(ds[k].nested[j], offset(ds, k))]])]

Sources == {source(ds) : ds \in SeqsUpTo(Declarations, MaxFunctions)}

(* The extractors' except branches run when self.lines[i] raises, that is  *)
(* when a boundary lies outside the buffer.  ast gives no such boundary    *)
(* for the text it parsed; SpecParse also takes trees in which the walker, *)
(* an external collaborator, reports one function past the buffer: ending  *)
(* after the last line ("end", the forward scans raise) or starting after  *)
(* it ("start", the description scan raises).                              *)

misplaced(nd, ls, how) ==
    CASE how = "end" -> [nd EXCEPT !.end_lineno = Len(ls) + 1]
      [] how = "start" -> [nd EXCEPT !.lineno = Len(ls) + 2, !.end_lineno = Len(ls) + 2]

ParseInputs ==
    Sources \cup
    { [lines |-> f.lines, tree |-> [f.tree EXCEPT ![k] = misplaced(@, f.lines, how)]] :
        <<f, k, how>> \in
            { x \in Sources \X (1..(2 * MaxFunctions + 1)) \X {"end", "start"} :
                x[2] <= Len(x[1].tree) /\ x[1].tree[x[2]].kind = "FunctionDef" } }

InitParse ==
    /\ \E f \in ParseInputs :
          /\ lines = f.lines
          /\ tree = f.tree
    /\ walked = 0
    /\ test_cases = <<>>
    /\ pc = "parse_test_cases"
    /\ node = NoNode
    /\ description = NoDescription
    /\ pre_condition = NoResult
    /\ test_steps = NoResult
    /\ expected_output = NoResult
    /\ test_case = NoTestCase
    /\ argv = <<>> /\ path_kind = "none" /\ files = <<>> /\ file_pos = 0
    /\ wb = <<>> /\ saved = FALSE /\ log = <<>> /\ raised = "" /\ exit_status = -1
    /\ NoScan

\* one turn of the for loop of parse_test_cases
VisitNode ==
    /\ pc = "parse_test_cases"
    /\ walked < Len(tree)
    /\ test_cases' = visit(lines, tree[walked + 1], test_cases)
    /\ walked' = walked + 1
    /\ UNCHANGED <<lines, node, pc, tree, extract_vars, run_vars, scan_vars>>

\* the walk is over
ParseReturn ==
    /\ pc = "parse_test_cases"
    /\ walked = Len(tree)
    /\ pc' = "return"
    /\ UNCHANGED <<lines, node, tree, walked, test_cases, extract_vars, run_vars, scan_vars>>

NextParse == VisitNode \/ ParseReturn

SpecParse == InitParse /\ [][NextParse]_vars

\* a function the walk discovers, named like a test
IsTest(nd) == nd.kind = "FunctionDef" /\ nd.name # <<>> /\ Head(nd.name) = "test_"

\* the test functions among the nodes walked so far, in the order of the walk
TestsWalked == SelectSeq(SubSeq(tree, 1, walked), IsTest)

\* the cell a scan's result is written to
Cell(r) == IF r.none THEN <<>> ELSE join(r.entries, NL)

\* C8: one record per discovered function named test_*, in the order of the
\* walk, and none for any other node; a field whose extraction found nothing or
\* raised is the empty string, and every other field of every record is what
\* its extraction returns.
C8_OneRecordPerTestFunction ==
    /\ Len(test_cases) = Len(TestsWalked)
    /\ \A k \in 1..Len(TestsWalked) :
          LET nd == TestsWalked[k]
              d == extract_description(lines, nd)
          IN /\ test_cases[k]["Test Case Name"] = nd.name
             /\ test_cases[k]["Test Case Description"] = (IF d.none THEN <<>> ELSE d.text)
             /\ test_cases[k]["Pre Condition"] = Cell(extract_pre_condition(lines, nd))
             /\ test_cases[k]["Test Steps"] = Cell(extract_test_steps(lines, nd))
             /\ test_cases[k]["Expected Output"] = Cell(extract_expected_output(lines, nd))
             /\ test_cases[k]["Automation Status"] = <<>>
             /\ test_cases[k]["Test Result"] = <<>>

\* the walk is over: the first test's forward scans raised and its description
\* was kept, the next test has its step, and a node named like a test that is
\* no function left no record
C8_Witness ==
    /\ pc = "return"
    /\ Len(test_cases) >= 2
    /\ extract_test_steps(lines, TestsWalked[1]).none
    /\ test_cases[1]["Test Case Description"] = <<"a">>
    /\ test_cases[1]["Test Steps"] = <<>>
    /\ test_cases[2]["Test Steps"] = <<"1", ".", SP, "a">>
    /\ \E k \in 1..Len(tree) : tree[k].kind = "ClassDef" /\ Head(tree[k].name) = "test_"

---------------------------------------------------------------------------
(* Paths.  A path is a sequence of tokens: directory and file names, "/",  *)
(* and a file name's stem tokens followed by its extension (".py").        *)

\* os.path.join(root, file)
path_join(root, file) == root \o <<"/">> \o file

\* os.path.basename(path): what follows the last "/"
basename(path) ==
    LET slashes == {k \in 1..Len(path) : path[k] = "/"}
    IN IF slashes = {} THEN path
       ELSE SubSeq(path, 1 + (CHOOSE k \in slashes : \A j \in slashes : j <= k), Len(path))

\* os.path.splitext(name)[0]: the name without its extension
splitext_root(name) ==
    IF Len(name) > 1 /\ name[Len(name)] \in {".py", ".txt"}
    THEN SubSeq(name, 1, Len(name) - 1) ELSE name

\* file.startswith("test_") and file.endswith(".py")
is_test_file(file) == startswith(file, <<"test_">>) /\ endswith(file, <<".py">>)

\* "site-packages" in root
in_site_packages(root) == contains(root, <<"site-packages">>)

---------------------------------------------------------------------------
(* The workbook.  A sheet is its title and its rows; wb is the list of     *)
(* sheets.  openpyxl.Workbook() holds one sheet, "Sheet".  create_sheet    *)
(* keeps titles unique: a title already in the workbook gets the next free *)
(* number appended (openpyxl's avoid_duplicate_name).  Workbook.save       *)
(* raises IndexError when the workbook has no sheet.                       *)

Workbook == << [title |-> <<"Sheet">>, rows |-> <<>>] >>

sheetnames(w) == {w[k].title : k \in 1..Len(w)}

unique_title(w, title) ==
    IF title \notin sheetnames(w) THEN title
    ELSE LET taken == {n \in 1..Len(w) : Append(title, ToString(n)) \in sheetnames(w)}
             highest == IF taken = {} THEN 0 ELSE CHOOSE n \in taken : \A m \in taken : m <= n
         IN Append(title, ToString(highest + 1))

\* [case[key] for key in case]
row(case) == [k \in 1..Len(headers) |-> case[headers[k]]]

\* write_to_excel: a new sheet with the header row and one row per test case
write_to_excel(w, sheet_name, cases) ==
    Append(w, [title |-> unique_title(w, sheet_name),
               rows |-> << [k \in 1..Len(headers) |-> <<headers[k]>>] >>
                        \o [k \in 1..Len(cases) |-> row(cases[k])]])

\* wb.remove(wb["Sheet"]) if "Sheet" in wb.sheetnames
without_default(w) == SelectSeq(w, LAMBDA sh : sh.title # <<"Sheet">>)

---------------------------------------------------------------------------
(* Files.  A file is where it lies (root, file), whether open() succeeds   *)
(* (status: "denied" is a file the process may not read, "missing" one     *)
(* removed after the walk listed it) and its text with the tree ast.parse  *)
(* gives for it.                                                           *)

\* ast.parse accepts the text
file_parses(ls) ==
    /\ open_at(ls, Len(ls)) = ""
    /\ \A i \in 0..(Len(ls) - 1) : statement_ok(ls[i + 1], open_at(ls, i), "")

\* a text that ends inside a string
Unterminated == [lines |-> << <<TQ, SP, TEST_STEP, SP, "u", NL>> >>, tree |-> <<>>]

Tests == <<"tests">>
Sub == <<"tests", "/", "sub">>
Vendor == <<"tests", "/", "site-packages">>

Files ==
    { [root |-> Tests, file |-> <<"test_", "a", ".py">>, status |-> "ok",
       source |-> source(<<TestA>>)],
      [root |-> Tests, file |-> <<"test_", "b", ".py">>, status |-> "ok",
       source |-> source(<<TestB, TestClass>>)],
      [root |-> Tests, file |-> <<"conftest", ".py">>, status |-> "ok",
       source |-> source(<<Helper>>)],
      [root |-> Tests, file |-> <<"test_", "n", ".txt">>, status |-> "ok",
       source |-> source(<<TestA>>)],
      [root |-> Tests, file |-> <<"test_", "x", ".py">>, status |-> "denied",
       source |-> source(<<TestA>>)],
      [root |-> Tests, file |-> <<"test_", "s", ".py">>, status |-> "ok",
       source |-> Unterminated],
      [root |-> Tests, file |-> <<"test_", "m", ".py">>, status |-> "missing",
       source |-> source(<<TestA>>)],
      [root |-> Sub, file |-> <<"test_", "a", ".py">>, status |-> "ok",
       source |-> source(<<Helper, TestB>>)],
      [root |-> Vendor, file |-> <<"test_", "v", ".py">>, status |-> "ok",
       source |-> source(<<TestA>>)] }

\* os.walk: every file once, the files of a directory together, the top
\* directory first
Walks ==
    { w \in SeqsUpTo(Files, MaxFiles) :
        /\ \A j \in 1..Len(w) : \A k \in 1..Len(w) : j < k => w[j] # w[k]
        /\ \A j \in 1..Len(w) : \A k \in 1..Len(w) :
              (j < k /\ w[j].root # w[k].root) =>
                  /\ w[k].root # Tests
                  /\ \A m \in k..Len(w) : w[m].root # w[j].root }

\* the state process_file works on
state(ls, cases, w, lg) ==
    [lines |-> ls, test_cases |-> cases, wb |-> w, log |-> lg, raised |-> ""]

\* read_file: FileNotFoundError is logged and raised again, any other error
\* is just raised
read_file(f, st) ==
    CASE f.status = "ok" -> [st EXCEPT !.lines = f.source.lines]
      [] f.status = "missing" ->
            [st EXCEPT !.log = Append(@, "ERROR File not found"),
                       !.raised = "FileNotFoundError"]
      [] f.status = "denied" -> [st EXCEPT !.raised = "PermissionError"]

\* parse_test_cases: ast.parse of the lines read, then the walk
parse_test_cases(f, st) ==
    IF ~file_parses(st.lines) THEN [st EXCEPT !.raised = "SyntaxError"]
    ELSE [st EXCEPT !.test_cases = visit_all(st.lines, f.source.tree, @)]

\* process_file that logs an error and goes on
process_file_catches(f, st) ==
    LET r == read_file(f, st)
        c == parse_test_cases(f, r)
    IN IF r.raised # "" THEN [r EXCEPT !.raised = ""]
       ELSE IF c.raised # "" THEN [c EXCEPT !.raised = ""]
       ELSE [c EXCEPT
               !.wb = write_to_excel(@, splitext_root(basename(path_join(f.root, f.file))),
                                     c.test_cases),
               !.test_cases = <<>>]

\* process_file: read, parse, write the sheet, empty the store
process_file(f, st) ==
    LET r == read_file(f, st)
        c == parse_test_cases(f, r)
    IN IF r.raised # "" THEN r
       ELSE IF c.raised # "" THEN c
       ELSE [c EXCEPT
               !.wb = write_to_excel(@, splitext_root(basename(path_join(f.root, f.file))),
                                     c.test_cases),
               !.test_cases = <<>>]

\* the body of process_directory's loops for one file of the walk
walk_file(f, st) ==
    IF in_site_packages(f.root) THEN st
    ELSE IF is_test_file(f.file) THEN process_file(f, st)
    ELSE st

---------------------------------------------------------------------------
(* SpecRun: cli.main and TestSheet.run.  argv is sys.argv; path_kind says  *)
(* what os.path.isfile / isdir answer for the input path; files is the one *)
(* file of a file run, or the files os.walk yields, in its order.  log     *)
(* keeps the records of level ERROR and the INFO record that ends a run.   *)
(* raised is the exception that left main, exit_status the process's.      *)

RunInputs ==
    { [argv |-> a, path_kind |-> "missing", files |-> <<>>] :
        a \in { <<"testsheet">>, <<"testsheet", "path">>, <<"testsheet", "path", "more">> } }
    \cup { [argv |-> <<"testsheet", "path">>, path_kind |-> "file", files |-> <<f>>] :
             f \in Files }
    \cup { [argv |-> <<"testsheet", "path">>, path_kind |-> "dir", files |-> w] :
             w \in Walks }

InitRun ==
    /\ \E r \in RunInputs :
          /\ argv = r.argv
          /\ path_kind = r.path_kind
          /\ files = r.files
    /\ pc = "main"
    /\ file_pos = 0
    /\ lines = <<>>
    /\ test_cases = <<>>
    /\ wb = <<>> /\ saved = FALSE /\ log = <<>> /\ raised = "" /\ exit_status = -1
    /\ NoScan
    /\ tree = <<>> /\ walked = 0
    /\ node = NoNode
    /\ description = NoDescription
    /\ pre_condition = NoResult
    /\ test_steps = NoResult
    /\ expected_output = NoResult
    /\ test_case = NoTestCase

untouched == <<node, tree, walked, extract_vars, argv, path_kind, files, scan_vars>>

\* main: len(sys.argv) != 2: the usage message and sys.exit(1)
Usage ==
    /\ pc = "main"
    /\ Len(argv) # 2
    /\ raised' = "SystemExit"
    /\ exit_status' = 1
    /\ pc' = "exit"
    /\ UNCHANGED <<untouched, lines, test_cases, file_pos, wb, saved, log>>

\* run: the path is a file
RunFile ==
    /\ pc = "main"
    /\ Len(argv) = 2
    /\ path_kind = "file"
    /\ wb' = Workbook
    /\ pc' = "process_file"
    /\ UNCHANGED <<untouched, lines, test_cases, file_pos, saved, log, raised, exit_status>>

\* run: the path is a directory
RunDirectory ==
    /\ pc = "main"
    /\ Len(argv) = 2
    /\ path_kind = "dir"
    /\ wb' = Workbook
    /\ pc' = "process_directory"
    /\ UNCHANGED <<untouched, lines, test_cases, file_pos, saved, log, raised, exit_status>>

\* run: the path is neither; run logs and returns, and so does main
InvalidPath ==
    /\ pc = "main"
    /\ Len(argv) = 2
    /\ path_kind \notin {"file", "dir"}
    /\ wb' = Workbook
    /\ log' = Append(log, "ERROR Invalid path")
    /\ exit_status' = 0
    /\ pc' = "exit"
    /\ UNCHANGED <<untouched, lines, test_cases, file_pos, saved, raised>>

\* what a call of process_file leaves: its state, and the exception, which
\* nothing between it and the interpreter catches
Processed(r, then) ==
    /\ lines' = r.lines
    /\ test_cases' = r.test_cases
    /\ wb' = r.wb
    /\ log' = r.log
    /\ raised' = r.raised
    /\ IF r.raised # ""
       THEN pc' = "exit" /\ exit_status' = 1
       ELSE pc' = then /\ UNCHANGED exit_status
    /\ UNCHANGED <<untouched, saved>>

\* run: self.process_file(self.file_path, wb)
ProcessFile ==
    /\ pc = "process_file"
    /\ file_pos' = 1
    /\ Processed(process_file(files[1], state(lines, test_cases, wb, log)), "save")

\* process_directory: the next file of the walk
WalkFile ==
    /\ pc = "process_directory"
    /\ file_pos < Len(files)
    /\ file_pos' = file_pos + 1
    /\ Processed(walk_file(files[file_pos + 1], state(lines, test_cases, wb, log)),
                 "process_directory")

\* process_directory returns
WalkReturn ==
    /\ pc = "process_directory"
    /\ file_pos = Len(files)
    /\ pc' = "save"
    /\ UNCHANGED <<untouched, lines, test_cases, file_pos, wb, saved, log, raised, exit_status>>

\* run: the default sheet is removed and the workbook saved
Save ==
    /\ pc = "save"
    /\ wb' = without_default(wb)
    /\ IF wb' = <<>>
       THEN /\ raised' = "IndexError"
            /\ exit_status' = 1
            /\ UNCHANGED <<saved, log>>
       ELSE /\ saved' = TRUE
            /\ log' = Append(log, "INFO All test cases written")
            /\ exit_status' = 0
            /\ UNCHANGED raised
    /\ pc' = "exit"
    /\ UNCHANGED <<untouched, lines, test_cases, file_pos>>

NextRun ==
    \/ Usage
    \/ RunFile
    \/ RunDirectory
    \/ InvalidPath
    \/ ProcessFile
    \/ WalkFile
    \/ WalkReturn
    \/ Save

SpecRun == InitRun /\ [][NextRun]_vars

---------------------------------------------------------------------------
(* Claims about a run.                                                     *)

\* the records of level ERROR
Errors == {"ERROR Invalid path", "ERROR File not found"}

\* a file named test_*.py that lies outside a site-packages directory
Eligible(f) ==
    /\ Head(f.file) = "test_"
    /\ f.file[Len(f.file)] = ".py"
    /\ \A k \in 1..Len(f.root) : f.root[k] # "site-packages"

EligibleFiles == SelectSeq(files, Eligible)

\* a file's name without directory and extension
Stem(f) == SubSeq(f.file, 1, Len(f.file) - 1)

\* the records of a file taken by itself
RecordsOf(f) == visit_all(f.source.lines, f.source.tree, <<>>)

\* a file that open() or ast.parse refuses
Bad(f) == Eligible(f) /\ (f.status # "ok" \/ ~file_parses(f.source.lines))

BadAt == {k \in 1..Len(files) : Bad(files[k])}

FirstBad == CHOOSE k \in BadAt : \A j \in BadAt : k <= j

\* C4: when the input path is neither a file nor a directory, an error is
\* logged, no spreadsheet is saved, and the process exits with a non-zero
\* status.
C4_InvalidPathExitsNonZero ==
    (Len(argv) = 2 /\ path_kind = "missing" /\ pc = "exit") =>
        /\ \E k \in 1..Len(log) : log[k] \in Errors
        /\ ~saved
        /\ exit_status # 0

\* C9: the store is empty whenever the processing of a file begins, and after
\* a successful directory run the workbook holds one sheet per eligible file,
\* in the walk's order, titled with the file's base name, whose data rows
\* are the records of that file, and no default sheet.
C9_OneSheetPerTestFile ==
    /\ pc \in {"process_file", "process_directory"} => test_cases = <<>>
    /\ (path_kind = "dir" /\ saved) =>
          /\ Len(wb) = Len(EligibleFiles)
          /\ \A k \in 1..Len(wb) :
                /\ wb[k].title # <<"Sheet">>
                /\ wb[k].title = Stem(EligibleFiles[k])
                /\ Tail(wb[k].rows) =
                      [j \in 1..Len(RecordsOf(EligibleFiles[k])) |->
                          row(RecordsOf(EligibleFiles[k])[j])]

\* C10: in a directory run with a file that cannot be read or parsed, the
\* walk never goes past the first such file and the workbook is never saved;
\* at that file the run ends with the exception uncaught, the sheets of the
\* earlier files being in the workbook beside the default sheet.
C10_FirstBadFileAborts ==
    (path_kind = "dir" /\ BadAt # {}) =>
        /\ ~saved
        /\ pc # "save"
        /\ file_pos <= FirstBad
        /\ file_pos = FirstBad =>
              /\ pc = "exit"
              /\ raised \in {"FileNotFoundError", "PermissionError", "SyntaxError"}
              /\ raised = "FileNotFoundError" => log[Len(log)] \in Errors
              /\ exit_status = 1
              /\ Len(wb) = 1 + Cardinality({k \in 1..(FirstBad - 1) : Eligible(files[k])})
              /\ \A k \in 2..Len(wb) : wb[k].rows # <<>>

\* a run stopped by a file that does not parse, one sheet written before it
\* and a test file after it never opened
C10_Witness ==
    /\ path_kind = "dir"
    /\ pc = "exit"
    /\ raised = "SyntaxError"
    /\ ~saved
    /\ Len(wb) = 2
    /\ file_pos < Len(files)
    /\ Eligible(files[Len(files)])

---------------------------------------------------------------------------
(* SpecScan: one forward scan, one loop iteration at a time.  scan holds   *)
(* the locals of the method (the tag of the scan, i, step_counter,         *)
(* comment_lines) and the line the open block began at; scanned is the     *)
(* list being built, with the indices read so far.  pc is "call" before    *)
(* the method is entered, "while" at the test of the outer loop, "block"   *)
(* at the test of the inner one.                                           *)

\* the lines a scan of one tag tells apart
ScanLines(t) ==
    { <<SP, HASH, SP, t, SP, "a", NL>>,                 \* # <tag> a
      <<SP, TQ, SP, t, SP, "c", NL>>,                   \* (TQ) <tag> c
      <<SP, "e", SP, TQ, NL>>,                          \* e (TQ)
      <<SP, DQ, SP, t, SP, "f", ESC, "g", SP, DQ, NL>> } \* (DQ) <tag> f\ng (DQ)

\* any buffer with any boundary
BoundaryInputs(t) ==
    { [lines |-> ls,
       node |-> [kind |-> "FunctionDef", name |-> test_a,
                 lineno |-> b[1], end_lineno |-> b[2]]] :
      ls \in SeqsUpTo(ScanLines(t), MaxLines),
      b \in {c \in (1..(MaxLines + 1)) \X (1..(MaxLines + 1)) : c[1] <= c[2]} }

\* the parsed functions, and any buffer with a boundary inside it or with
\* one that begins at its last line and ends below it
ScanInputs(t) ==
    FunctionInputs
    \cup {f \in BoundaryInputs(t) :
            \/ f.node.end_lineno <= Len(f.lines)
            \/ f.node.lineno = Len(f.lines) /\ f.node.end_lineno = Len(f.lines) + 1}

\* the scan that runs to the end of the buffer
function_end_of_buffer == Len(lines)

\* function_end = node.end_lineno
function_end == node.end_lineno

\* the object as constructed: no lines read, no scan begun
InitScan ==
    /\ lines = <<>>
    /\ node = NoNode
    /\ NoScan
    /\ pc = "call"
    /\ description = NoDescription
    /\ pre_condition = NoResult
    /\ test_steps = NoResult
    /\ expected_output = NoResult
    /\ test_case = NoTestCase
    /\ tree = <<>> /\ walked = 0 /\ test_cases = <<>>
    /\ argv = <<>> /\ path_kind = "none" /\ files = <<>> /\ file_pos = 0
    /\ wb = <<>> /\ saved = FALSE /\ log = <<>> /\ raised = "" /\ exit_status = -1

\* a forward scan is called on a node of the lines read:
\* step_counter = 1; i = function_start + 1
ScanCall ==
    /\ pc = "call"
    /\ \E t \in {PRECONDITION, TEST_STEP, EXPECTED_OUTPUT} :
          \E f \in ScanInputs(t) :
             /\ lines' = f.lines
             /\ node' = f.node
             /\ scan' = [tag |-> t, i |-> f.node.lineno, step_counter |-> 1,
                         comment_lines |-> <<>>, opened |-> 0]
    /\ scanned' = NoEntries
    /\ pc' = "while"
    /\ UNCHANGED <<extract_vars, parse_vars, run_vars>>

scan_frame == <<lines, node, extract_vars, parse_vars, run_vars>>

\* line = self.lines[i].strip()
scan_line == strip(lines[scan.i + 1])

\* the outer loop's condition fails: return the list
ScanReturn ==
    /\ pc = "while"
    /\ ~(scan.i < function_end)
    /\ pc' = "return"
    /\ UNCHANGED <<scan, scanned, scan_frame>>

\* self.lines[i] raises IndexError: the except branch returns None
ScanRaise ==
    /\ pc \in {"while", "block"}
    /\ scan.i < function_end
    /\ scan.i >= Len(lines)
    /\ scanned' = [scanned EXCEPT !.none = TRUE, !.entries = <<>>, !.at = <<>>]
    /\ pc' = "return"
    /\ UNCHANGED <<scan, scan_frame>>

\* a single-line comment of the tag
ScanSingleLine ==
    /\ pc = "while"
    /\ scan.i < function_end
    /\ scan.i < Len(lines)
    /\ \E line \in {scan_line} :
          /\ startswith(line, <<HASH, SP, scan.tag>>)
          /\ scanned' = [scanned EXCEPT
                           !.entries = Append(@, numbered(scan.step_counter)
                                           \o strip(split_last(line, <<HASH, SP, scan.tag>>))),
                           !.at = Append(@, scan.i),
                           !.reads = Append(@, scan.i)]
    /\ scan' = [scan EXCEPT !.step_counter = @ + 1, !.i = @ + 1]
    /\ UNCHANGED <<pc, scan_frame>>

\* the opening line of a block: comment_lines = []; i += 0
ScanOpenBlock ==
    /\ pc = "while"
    /\ scan.i < function_end
    /\ scan.i < Len(lines)
    /\ \E line \in {scan_line} :
          /\ ~startswith(line, <<HASH, SP, scan.tag>>)
          /\ \/ startswith(line, <<DQ, SP, scan.tag>>)
             \/ startswith(line, <<TQ, SP, scan.tag>>)
    /\ scan' = [scan EXCEPT !.comment_lines = <<>>, !.opened = scan.i]
    /\ scanned' = [scanned EXCEPT !.reads = Append(@, scan.i)]
    /\ pc' = "block"
    /\ UNCHANGED scan_frame

\* any other line
ScanOtherLine ==
    /\ pc = "while"
    /\ scan.i < function_end
    /\ scan.i < Len(lines)
    /\ \E line \in {scan_line} :
          /\ ~startswith(line, <<HASH, SP, scan.tag>>)
          /\ ~startswith(line, <<DQ, SP, scan.tag>>)
          /\ ~startswith(line, <<TQ, SP, scan.tag>>)
    /\ scan' = [scan EXCEPT !.i = @ + 1]
    /\ scanned' = [scanned EXCEPT !.reads = Append(@, scan.i)]
    /\ UNCHANGED <<pc, scan_frame>>

\* what follows the inner loop: the block is one entry if it has any text,
\* then the outer loop's i += 1
block_done(reads) ==
    /\ IF scan.comment_lines # <<>>
       THEN /\ scanned' = [scanned EXCEPT
                             !.entries = Append(@, numbered(scan.step_counter)
                                             \o strip(join(scan.comment_lines, SP))),
                             !.at = Append(@, scan.opened),
                             !.reads = reads]
            /\ scan' = [scan EXCEPT !.step_counter = @ + 1, !.i = @ + 1]
       ELSE /\ scanned' = [scanned EXCEPT !.reads = reads]
            /\ scan' = [scan EXCEPT !.i = @ + 1]
    /\ pc' = "while"
    /\ UNCHANGED scan_frame

\* a line of the block that does not end with a triple quote
ScanBlockLine ==
    /\ pc = "block"
    /\ scan.i < function_end
    /\ scan.i < Len(lines)
    /\ \E line \in {scan_line} :
          /\ ~(endswith(line, <<DQ>>) \/ endswith(line, <<TQ>>))
          /\ \E step_text \in
                 { IF contains(line, <<DQ, SP, scan.tag>>)
                   THEN split_last(line, <<DQ, SP, scan.tag>>)
                   ELSE IF contains(line, <<TQ, SP, scan.tag>>)
                   THEN split_last(line, <<TQ, SP, scan.tag>>)
                   ELSE line } :
                scan' = [scan EXCEPT !.comment_lines = Append(@, expand_escapes(step_text)),
                                     !.i = @ + 1]
    /\ scanned' = [scanned EXCEPT !.reads = Append(@, scan.i)]
    /\ UNCHANGED <<pc, scan_frame>>

\* a line that ends with a triple quote: break
ScanBlockBreak ==
    /\ pc = "block"
    /\ scan.i < function_end
    /\ scan.i < Len(lines)
    /\ \E line \in {scan_line} : endswith(line, <<DQ>>) \/ endswith(line, <<TQ>>)
    /\ block_done(Append(scanned.reads, scan.i))

\* the inner loop's condition fails with the block still open
ScanBlockCutOff ==
    /\ pc = "block"
    /\ ~(scan.i < function_end)
    /\ block_done(scanned.reads)

\* the steps of the method once it is entered
ScanLoop ==
    \/ ScanReturn
    \/ ScanRaise
    \/ ScanSingleLine
    \/ ScanOpenBlock
    \/ ScanOtherLine
    \/ ScanBlockLine
    \/ ScanBlockBreak
    \/ ScanBlockCutOff

NextScan == ScanCall \/ ScanLoop

\* the interpreter runs an entered method on: a step that can be taken is
\* taken.  Nothing obliges a caller to call.
SpecScan == InitScan /\ [][NextScan]_vars /\ WF_vars(ScanLoop)

---------------------------------------------------------------------------
(* Claims about the loops of a forward scan.                               *)

\* startLine <= endLine <= number of lines
BoundaryInside == node.lineno <= node.end_lineno /\ node.end_lineno <= Len(lines)

\* a sequence of integers that never decreases
NonDecreasing(s) == \A j \in 1..Len(s) : \A k \in 1..Len(s) : j < k => s[j] <= s[k]

\* the line where a block of the scan's tag opens that no line of the
\* function closes
OpenEnded ==
    {a \in BodyIndices :
        /\ a < Len(lines)
        /\ Opens(a, scan.tag)
        /\ ~startswith(Line(a), <<HASH>>)
        /\ ~Enclosed(a, scan.tag)
        /\ ~\E c \in a..(node.end_lineno - 1) : Closes(c)}

\* what a line inside a block contributes
Contribution(k) ==
    LET after(q) == split_last(Line(k), <<q, SP, scan.tag>>)
    IN expand_escapes(IF contains(Line(k), <<DQ, SP, scan.tag>>) THEN after(DQ)
                      ELSE IF contains(Line(k), <<TQ, SP, scan.tag>>) THEN after(TQ)
                      ELSE Line(k))

\* the text of the lines a .. the function's last line
CutOffText(a) ==
    strip(join([k \in 1..(node.end_lineno - a) |-> Contribution(a + k - 1)], SP))

\* what holds at every point of a scan
ScanInRange ==
    /\ ~scanned.none
    /\ node.lineno <= scan.i /\ scan.i <= function_end + 1
    /\ \A k \in 1..Len(scanned.reads) : scanned.reads[k] \in BodyIndices
    /\ \A k \in 1..Len(scanned.at) : scanned.at[k] \in BodyIndices
    /\ NonDecreasing(scanned.reads)
    /\ NonDecreasing(scanned.at)
    /\ Len(scanned.entries) = Len(scanned.at)
    /\ Len(scanned.reads) <= 2 * Cardinality(BodyIndices)

\* what holds when the scan has returned
ScanCutOff ==
    pc = "return" =>
        /\ scanned = forward_scan(lines, node, scan.tag)
        /\ \A a \in OpenEnded :
              /\ scanned.at # <<>>
              /\ scanned.at[Len(scanned.at)] = a
              /\ scanned.entries[Len(scanned.entries)]
                     = numbered(Len(scanned.entries)) \o CutOffText(a)
              /\ scanned.reads[Len(scanned.reads)] = node.end_lineno - 1

===========================================================================
